---------------------------- MODULE Spec2Model ----------------------------
(***************************************************************************)
(* A model of uiuccourse.py: the three HTML scanners                       *)
(* (UIUCSubjectListParser, UIUCCourseListParser, UIUCSectionListParser)    *)
(* and the caching UIUCCourseFetcher.                                      *)
(*                                                                         *)
(* Python strings are sequences of one-character strings, so that strip,   *)
(* split, upper, lower, slicing, int() and str() are computed and not      *)
(* assumed.  An optional value is None == <<>> or Some(x) == <<x>>.        *)
(***************************************************************************)
EXTENDS Integers, Sequences, FiniteSets, TLC

VARIABLES
    \* UIUCSectionListParser under a stream of events
    parser,        \* [sections, current_crn, property_to_write, exc]
    last,          \* the event handled last
    nEvents,       \* number of events handled
    runFrags,      \* raw fragments written since the active field or CRN last changed
    runBase,       \* the field's value (an option) before the first of runFrags
    brAt,          \* Some(k): a br tag arrived in this run after k fragments
    replaced,      \* Some(record): the record the last event replaced by a new one
    \* UIUCCourseFetcher
    ctor,          \* the arguments and the date the fetcher was constructed with
    urls,          \* self.urls
    subject_list,  \* self.subject_list  (None or Some(list))
    course_list,   \* self.course_list   (dict: a function on its keys)
    section_list,  \* self.section_list  (dict of dicts)
    call,          \* the last call on the fetcher and what it did
    nCalls,        \* number of calls made
    served         \* URLs requested with success since construction or flush()

scanVars == <<parser, last, nEvents, runFrags, runBase, brAt, replaced>>
fetchVars == <<ctor, urls, subject_list, course_list, section_list, call, nCalls,
               served>>
vars == <<parser, last, nEvents, runFrags, runBase, brAt, replaced,
          ctor, urls, subject_list, course_list, section_list, call, nCalls,
          served>>

-----------------------------------------------------------------------------
(* Bounds *)

\* events fed to a scanner
MaxEvents == 7
\* calls made on a fetcher
MaxCalls == 2

-----------------------------------------------------------------------------
(* Python values *)

None == << >>
Some(x) == <<x>>

EmptyDict == [k \in {} |-> k]

\* d[k] = v, adding k when it is not a key
DictSet(d, k, v) == [x \in (DOMAIN d) \cup {k} |-> IF x = k THEN v ELSE d[x]]

\* d.get(k)
DictGet(d, k) == IF k \in DOMAIN d THEN Some(d[k]) ELSE None

Range(s) == {s[i] : i \in 1..Len(s)}

\* string.whitespace of the str type (the vertical tab has no TLA+ escape)
Whitespace == {" ", "\t", "\n", "\r", "\f"}

Digits == <<"0", "1", "2", "3", "4", "5", "6", "7", "8", "9">>

RECURSIVE LStrip(_)
LStrip(s) ==
    IF s # << >> /\ Head(s) \in Whitespace THEN LStrip(Tail(s)) ELSE s

RECURSIVE RStrip(_)
RStrip(s) ==
    IF s # << >> /\ s[Len(s)] \in Whitespace
    THEN RStrip(SubSeq(s, 1, Len(s) - 1))
    ELSE s

\* str.strip()
Strip(s) == RStrip(LStrip(s))

\* re.compile('\s+').sub(' ', s): every maximal run of whitespace becomes one space
RECURSIVE ReCleanerSub(_)
ReCleanerSub(s) ==
    IF s = << >> THEN << >>
    ELSE IF Head(s) \in Whitespace
         THEN <<" ">> \o ReCleanerSub(LStrip(s))
         ELSE <<Head(s)>> \o ReCleanerSub(Tail(s))

\* a slice that drops nothing
SliceFromKeepingAll(s, n) == s

\* s[n:]
SliceFrom(s, n) == IF n >= Len(s) THEN << >> ELSE SubSeq(s, n + 1, Len(s))

DigitValue(c) == CHOOSE d \in 0..9 : Digits[d + 1] = c

RECURSIVE DigitsValue(_)
DigitsValue(s) ==
    IF s = << >> THEN 0
    ELSE 10 * DigitsValue(SubSeq(s, 1, Len(s) - 1)) + DigitValue(s[Len(s)])

Unsigned(s) == IF s # << >> /\ Head(s) \in {"+", "-"} THEN Tail(s) ELSE s

\* int(s) succeeds: optional whitespace, optional sign, one or more digits
IntParses(s) ==
    LET u == Unsigned(Strip(s))
    IN  u # << >> /\ \A i \in 1..Len(u) : u[i] \in Range(Digits)

\* int(s), when it succeeds
IntOf(s) ==
    LET t == Strip(s)
        v == DigitsValue(Unsigned(t))
    IN  IF Head(t) = "-" THEN 0 - v ELSE v

RECURSIVE StrNat(_)
StrNat(n) ==
    IF n < 10 THEN <<Digits[n + 1]>>
    ELSE StrNat(n \div 10) \o <<Digits[(n % 10) + 1]>>

\* str(n) of an int
StrInt(n) == IF n < 0 THEN <<"-">> \o StrNat(0 - n) ELSE StrNat(n)

\* str.upper() and str.lower(), on the letters the model uses
UpperChar(c) ==
    CASE c = "a" -> "A" [] c = "c" -> "C" [] c = "m" -> "M" [] c = "s" -> "S"
      [] c = "t" -> "T" [] c = "r" -> "R" [] c = "p" -> "P" [] c = "i" -> "I"
      [] c = "n" -> "N" [] c = "g" -> "G" [] c = "f" -> "F" [] c = "l" -> "L"
      [] c = "u" -> "U" [] c = "e" -> "E" [] c = "b" -> "B" [] c = "d" -> "D"
      [] OTHER -> c

LowerChar(c) ==
    CASE c = "A" -> "a" [] c = "C" -> "c" [] c = "M" -> "m" [] c = "S" -> "s"
      [] c = "T" -> "t" [] c = "R" -> "r" [] c = "P" -> "p" [] c = "I" -> "i"
      [] c = "N" -> "n" [] c = "G" -> "g" [] c = "F" -> "f" [] c = "L" -> "l"
      [] c = "U" -> "u" [] c = "E" -> "e" [] c = "B" -> "b" [] c = "D" -> "d"
      [] OTHER -> c

RECURSIVE Upper(_)
Upper(s) == IF s = << >> THEN << >> ELSE <<UpperChar(Head(s))>> \o Upper(Tail(s))

RECURSIVE Lower(_)
Lower(s) == IF s = << >> THEN << >> ELSE <<LowerChar(Head(s))>> \o Lower(Tail(s))

\* s.split(' '): split at every single space, empty pieces kept
RECURSIVE SplitSpace(_)
SplitSpace(s) ==
    IF \A i \in 1..Len(s) : s[i] # " " THEN <<s>>
    ELSE LET i == CHOOSE j \in 1..Len(s) :
                      s[j] = " " /\ \A k \in 1..(j - 1) : s[k] # " "
         IN  <<SubSeq(s, 1, i - 1)>> \o SplitSpace(SubSeq(s, i + 1, Len(s)))

-----------------------------------------------------------------------------
(* Markup events.  HTMLParser turns the page into calls of handle_starttag, *)
(* handle_endtag and handle_data; an event is one such call.  No scanner    *)
(* defines handle_endtag, so an end tag runs HTMLParser's, which does       *)
(* nothing.                                                                 *)

StartTag(tag, attrs) == [kind |-> "start", tag |-> tag, attrs |-> attrs, data |-> << >>]
EndTag(tag) == [kind |-> "end", tag |-> tag, attrs |-> EmptyDict, data |-> << >>]
Data(text) == [kind |-> "data", tag |-> << >>, attrs |-> EmptyDict, data |-> text]
NoEvent == [kind |-> "none", tag |-> << >>, attrs |-> EmptyDict, data |-> << >>]

BR == <<"b", "r">>
TD == <<"t", "d">>
DIV == <<"d", "i", "v">>

WS_CRN == <<"w", "s", "-", "c", "r", "n">>
WS_TYPE == <<"w", "s", "-", "t", "y", "p", "e">>
WS_SECTION == <<"w", "s", "-", "s", "e", "c", "t", "i", "o", "n">>
WS_TIME == <<"w", "s", "-", "t", "i", "m", "e">>
WS_DAYS == <<"w", "s", "-", "d", "a", "y", "s">>
WS_LOCATION == <<"w", "s", "-", "l", "o", "c", "a", "t", "i", "o", "n">>
WS_INSTRUCTOR == <<"w", "s", "-", "i", "n", "s", "t", "r", "u", "c", "t", "o", "r">>
WS_ROW == <<"w", "s", "-", "r", "o", "w">>
WS_COURSE_NUMBER == <<"w", "s", "-", "c", "o", "u", "r", "s", "e", "-",
                      "n", "u", "m", "b", "e", "r">>

\* ', '
Separator == <<",", " ">>

-----------------------------------------------------------------------------
(* UIUCSubjectListParser *)

SubjectParserInit == [subject_list |-> << >>, ready |-> FALSE, exc |-> ""]

SubjectStartTag(p, tag, attrs) ==
    [p EXCEPT !.ready = Lower(tag) = DIV
                        /\ DictGet(attrs, "class") = Some(WS_COURSE_NUMBER)]

SubjectData(p, data) ==
    IF p.ready THEN [p EXCEPT !.subject_list = Append(@, data)] ELSE p

SubjectEvent(p, e) ==
    IF e.kind = "start" THEN SubjectStartTag(p, e.tag, e.attrs)
    ELSE IF e.kind = "data" THEN SubjectData(p, e.data)
    ELSE p

SubjectResult(p) == p.subject_list

-----------------------------------------------------------------------------
(* UIUCCourseListParser *)

CourseParserInit == [course_no |-> << >>, ready |-> FALSE, exc |-> ""]

CourseStartTag(p, tag, attrs) ==
    [p EXCEPT !.ready = Lower(tag) = DIV
                        /\ DictGet(attrs, "class") = Some(WS_COURSE_NUMBER)]

\* data.split(' ')[1] raises IndexError when there is no second piece
CourseData(p, data) ==
    IF p.ready
    THEN LET pieces == SplitSpace(data)
         IN  IF Len(pieces) < 2 THEN [p EXCEPT !.exc = "IndexError"]
             ELSE [p EXCEPT !.course_no = Append(@, pieces[2])]
    ELSE p

CourseEvent(p, e) ==
    IF e.kind = "start" THEN CourseStartTag(p, e.tag, e.attrs)
    ELSE IF e.kind = "data" THEN CourseData(p, e.data)
    ELSE p

CourseResult(p) == p.course_no

-----------------------------------------------------------------------------
(* UIUCSectionListParser *)

SectionHeaders == <<WS_CRN, WS_TYPE, WS_SECTION, WS_TIME, WS_DAYS, WS_LOCATION,
                    WS_INSTRUCTOR>>

SectionParserInit ==
    [sections |-> EmptyDict, current_crn |-> None, property_to_write |-> None,
     exc |-> ""]

\* SectionStartTag without the br exception of lines 81-82
SectionStartTagClearingOnBr(p, tag, attrs) ==
    IF Lower(tag) = TD
       /\ DictGet(attrs, "headers") # None
       /\ attrs["headers"] \in Range(SectionHeaders)
    THEN IF DictGet(attrs, "class") = None
         THEN [p EXCEPT !.exc = "AttributeError"]
         ELSE IF Strip(attrs["class"]) = WS_ROW
              THEN [p EXCEPT !.property_to_write = Some(attrs["headers"])]
              ELSE [p EXCEPT !.property_to_write = None]
    ELSE [p EXCEPT !.property_to_write = None]

\* attrs.get('class').strip() raises AttributeError when the tag has no class;
\* it is evaluated only when headers is one of SectionHeaders
SectionStartTag(p, tag, attrs) ==
    IF Lower(tag) = BR /\ p.property_to_write = Some(WS_LOCATION) THEN p
    ELSE IF Lower(tag) = TD
              /\ DictGet(attrs, "headers") # None
              /\ attrs["headers"] \in Range(SectionHeaders)
         THEN IF DictGet(attrs, "class") = None
              THEN [p EXCEPT !.exc = "AttributeError"]
              ELSE IF Strip(attrs["class"]) = WS_ROW
                   THEN [p EXCEPT !.property_to_write = Some(attrs["headers"])]
                   ELSE [p EXCEPT !.property_to_write = None]
         ELSE [p EXCEPT !.property_to_write = None]

\* SectionData whose except branch leaves the current CRN as it was
SectionDataKeepingCrn(p, data) ==
    IF p.property_to_write = Some(WS_CRN)
    THEN IF IntParses(data)
         THEN [p EXCEPT !.current_crn = Some(IntOf(data)),
                        !.sections = DictSet(@, IntOf(data), EmptyDict)]
         ELSE p
    ELSE IF p.current_crn # None /\ p.property_to_write # None
         THEN LET cleaned == ReCleanerSub(Strip(data))
                  crn == p.current_crn[1]
                  key == SliceFrom(p.property_to_write[1], 3)
                  current_section == p.sections[crn]
              IN  IF DictGet(current_section, key) = None
                  THEN [p EXCEPT !.sections =
                           DictSet(@, crn, DictSet(current_section, key, cleaned))]
                  ELSE [p EXCEPT !.sections =
                           DictSet(@, crn, DictSet(current_section, key,
                               current_section[key] \o Separator \o cleaned))]
         ELSE p

\* SectionData that assigns the field where line 107 appends to it
SectionDataOverwriting(p, data) ==
    IF p.property_to_write = Some(WS_CRN)
    THEN IF IntParses(data)
         THEN [p EXCEPT !.current_crn = Some(IntOf(data)),
                        !.sections = DictSet(@, IntOf(data), EmptyDict)]
         ELSE [p EXCEPT !.current_crn = None]
    ELSE IF p.current_crn # None /\ p.property_to_write # None
         THEN LET cleaned == ReCleanerSub(Strip(data))
                  crn == p.current_crn[1]
                  key == SliceFrom(p.property_to_write[1], 3)
                  current_section == p.sections[crn]
              IN  [p EXCEPT !.sections =
                      DictSet(@, crn, DictSet(current_section, key, cleaned))]
         ELSE p

\* SectionData that keeps the record of a CRN seen before where line 93
\* assigns a new one
SectionDataKeepingRecord(p, data) ==
    IF p.property_to_write = Some(WS_CRN)
    THEN IF IntParses(data)
         THEN [p EXCEPT !.current_crn = Some(IntOf(data)),
                        !.sections = IF IntOf(data) \in DOMAIN @ THEN @
                                     ELSE DictSet(@, IntOf(data), EmptyDict)]
         ELSE [p EXCEPT !.current_crn = None]
    ELSE IF p.current_crn # None /\ p.property_to_write # None
         THEN LET cleaned == ReCleanerSub(Strip(data))
                  crn == p.current_crn[1]
                  key == SliceFrom(p.property_to_write[1], 3)
                  current_section == p.sections[crn]
              IN  IF DictGet(current_section, key) = None
                  THEN [p EXCEPT !.sections =
                           DictSet(@, crn, DictSet(current_section, key, cleaned))]
                  ELSE [p EXCEPT !.sections =
                           DictSet(@, crn, DictSet(current_section, key,
                               current_section[key] \o Separator \o cleaned))]
         ELSE p

\* The inner test for 'ws-crn' (line 99) repeats the outer one and cannot
\* succeed; its int() has no try around it.
SectionData(p, data) ==
    IF p.property_to_write = Some(WS_CRN)
    THEN IF IntParses(data)
         THEN [p EXCEPT !.current_crn = Some(IntOf(data)),
                        !.sections = DictSet(@, IntOf(data), EmptyDict)]
         ELSE [p EXCEPT !.current_crn = None]
    ELSE IF p.current_crn # None /\ p.property_to_write # None
         THEN LET cleaned == ReCleanerSub(Strip(data))
                  crn == p.current_crn[1]
                  key == SliceFrom(p.property_to_write[1], 3)
                  current_section == p.sections[crn]
              IN  IF p.property_to_write = Some(WS_CRN)
                  THEN IF IntParses(cleaned)
                       THEN [p EXCEPT !.current_crn = Some(IntOf(cleaned)),
                                      !.sections = DictSet(@, IntOf(cleaned), EmptyDict)]
                       ELSE [p EXCEPT !.exc = "ValueError"]
                  ELSE IF DictGet(current_section, key) = None
                       THEN [p EXCEPT !.sections =
                                DictSet(@, crn, DictSet(current_section, key, cleaned))]
                       ELSE [p EXCEPT !.sections =
                                DictSet(@, crn, DictSet(current_section, key,
                                    current_section[key] \o Separator \o cleaned))]
         ELSE p

SectionEvent(p, e) ==
    IF e.kind = "start" THEN SectionStartTag(p, e.tag, e.attrs)
    ELSE IF e.kind = "data" THEN SectionData(p, e.data)
    ELSE p

SectionResult(p) == p.sections

-----------------------------------------------------------------------------
(* The events a section page can deliver *)

\* text fragments: empty, whitespace only, a word, digits, digits wrapped in
\* whitespace, digits followed by a letter, and words separated by runs of
\* spaces, tabs and newlines
Texts ==
    { << >>,
      <<" ">>,
      <<"\n", "\t">>,
      <<"a">>,
      <<"7">>,
      <<" ", "7", "7", "\n">>,
      <<"7", "a">>,
      <<"\n", "a", " ", "\t", "a", "\n">> }

Attrs(headers, class) ==
    [k \in {"headers", "class"} |-> IF k = "headers" THEN headers ELSE class]

OnlyHeaders(headers) == [k \in {"headers"} |-> headers]
OnlyClass(class) == [k \in {"class"} |-> class]

OtherHeader == <<"w", "s", "-", "c", "r", "e", "d", "i", "t">>
HeaderRowClass == <<"w", "s", "-", "r", "o", "w", "-", "h", "e", "a", "d">>

\* the start tags of a section page: data cells, header cells, cells with
\* attributes missing, line breaks and other markup
StartTags ==
    { StartTag(TD, Attrs(WS_CRN, WS_ROW)),
      StartTag(TD, Attrs(WS_LOCATION, WS_ROW)),
      StartTag(<<"T", "D">>, Attrs(WS_TIME, <<" ">> \o WS_ROW \o <<"\n">>)),
      StartTag(TD, Attrs(WS_LOCATION, HeaderRowClass)),
      StartTag(TD, Attrs(OtherHeader, WS_ROW)),
      StartTag(TD, OnlyHeaders(WS_LOCATION)),
      StartTag(TD, OnlyClass(WS_ROW)),
      StartTag(BR, EmptyDict),
      StartTag(<<"B", "R">>, OnlyClass(WS_ROW)),
      StartTag(DIV, OnlyClass(WS_COURSE_NUMBER)) }

\* the end tags of a page
EndTags == {TD}

-----------------------------------------------------------------------------
(* The transport and the site.  urllib2.urlopen(url) either raises or       *)
(* yields the page, which HTMLParser turns into events.                     *)

SiteRoot ==
    <<"h", "t", "t", "p", ":", "/", "/", "c", "o", "u", "r", "s", "e", "s", ".",
      "i", "l", "l", "i", "n", "o", "i", "s", ".", "e", "d", "u", "/", "c", "i",
      "s", "/">>

Slash == <<"/">>
ScheduleDir == <<"/", "s", "c", "h", "e", "d", "u", "l", "e", "/">>
IndexHtml == <<"i", "n", "d", "e", "x", ".", "h", "t", "m", "l">>
DotHtml == <<".", "h", "t", "m", "l">>

SPRING == <<"s", "p", "r", "i", "n", "g">>
SUMMER == <<"s", "u", "m", "m", "e", "r">>
FALL == <<"f", "a", "l", "l">>

\* course numbers are ints or strings; subjects are strings, lists or tuples
IntNo(n) == <<"int", n>>
StrNo(s) == <<"str", s>>
IsInt(v) == v[1] = "int"

\* str(course_no)
Str(v) == IF IsInt(v) THEN StrInt(v[2]) ELSE v[2]

\* the URL built for a subject's course list (line 169)
SubjectUrl(root, subject) == root \o Upper(subject) \o Slash

\* the URL built for a course's section list (line 178)
CourseUrl(root, subject, course_no) ==
    root \o Upper(subject) \o Slash \o Str(course_no) \o DotHtml

CS == <<"C", "S">>
MA == <<"M", "A">>

Label(text) == <<StartTag(DIV, OnlyClass(WS_COURSE_NUMBER)), Data(text)>>
Cell(header, text) == <<StartTag(TD, Attrs(header, WS_ROW)), Data(text)>>
Markup(tag) == <<StartTag(tag, EmptyDict)>>

\* Two states of the site.  In both, MA lists no course.  In the first, CS
\* lists courses 1 and 2 and CS 2 has no section; in the second, CS lists
\* course 1 only and its section has moved.
Site(root, version) ==
    LET portal == root \o IndexHtml
        cs == root \o CS \o Slash
        ma == root \o MA \o Slash
        cs1 == root \o CS \o Slash \o <<"1">> \o DotHtml
        cs2 == root \o CS \o Slash \o <<"2">> \o DotHtml
        pages == {portal, cs, ma, cs1, cs2}
    IN  [u \in pages |->
           CASE u = portal ->
                  Markup(<<"h", "1">>) \o <<Data(<<"a">>)>>
                  \o Label(CS) \o Markup(DIV) \o Label(MA)
             [] u = cs ->
                  IF version = 1
                  THEN Label(<<"C", "S", " ", "1">>) \o Markup(BR)
                       \o Label(<<"C", "S", " ", "2">>)
                  ELSE Label(<<"C", "S", " ", "1">>)
             [] u = ma -> Markup(DIV) \o <<Data(<<"a">>)>>
             [] u = cs1 ->
                  Cell(WS_CRN, <<"7">>)
                  \o Cell(WS_LOCATION, IF version = 1 THEN <<"a">> ELSE <<"b">>)
             [] u = cs2 ->
                  IF version = 1 THEN Markup(TD)
                  ELSE Cell(WS_CRN, <<"8">>) ]

SiteVersions == {1, 2}

ParserInit(kind) ==
    CASE kind = "subject" -> SubjectParserInit
      [] kind = "course" -> CourseParserInit
      [] kind = "section" -> SectionParserInit

ParserEvent(kind, p, e) ==
    CASE kind = "subject" -> SubjectEvent(p, e)
      [] kind = "course" -> CourseEvent(p, e)
      [] kind = "section" -> SectionEvent(p, e)

ParserResult(kind, p) ==
    CASE kind = "subject" -> SubjectResult(p)
      [] kind = "course" -> CourseResult(p)
      [] kind = "section" -> SectionResult(p)

\* hp.feed(line) for every line; an exception in a handler ends the parse
RECURSIVE Feed(_, _, _)
Feed(kind, p, events) ==
    IF events = << >> \/ p.exc # "" THEN p
    ELSE Feed(kind, ParserEvent(kind, p, Head(events)), Tail(events))

-----------------------------------------------------------------------------
(* UIUCCourseFetcher *)

\* TermOf with the term test of lines 128-129 as a conjunction: a term that is
\* one of the three is kept
TermOfKeepingTerm(term, month) ==
    LET lowered == IF term # None THEN Some(Lower(term[1])) ELSE term
    IN  IF lowered = None
           \/ (lowered # Some(SPRING) /\ lowered # Some(FALL) /\ lowered # Some(SUMMER))
        THEN IF month < 5 THEN SPRING
             ELSE IF month < 8 THEN SUMMER
             ELSE FALL
        ELSE lowered[1]

\* __init__: the term test of lines 128-129 is a disjunction of inequalities
TermOf(term, month) ==
    LET lowered == IF term # None THEN Some(Lower(term[1])) ELSE term
    IN  IF lowered = None
           \/ (lowered # Some(SPRING) \/ lowered # Some(FALL) \/ lowered # Some(SUMMER))
        THEN IF month < 5 THEN SPRING
             ELSE IF month < 8 THEN SUMMER
             ELSE FALL
        ELSE lowered[1]

\* self.urls as __init__ sets it; year and term are options, today is
\* datetime.date.today()
Construct(year, term, today) ==
    LET y == IF year = None THEN today.year ELSE year[1]
        root == SiteRoot \o StrInt(y) \o Slash \o TermOf(term, today.month)
                    \o ScheduleDir
    IN  [root |-> root, portal |-> root \o IndexHtml]

\* the fetcher's caches during a call, the requests the call has issued and
\* the exception it has raised, if any
Machine ==
    [subject_list |-> subject_list, course_list |-> course_list,
     section_list |-> section_list, requests |-> << >>, exc |-> ""]

Raised(r) == r.m.exc # ""

\* "not x" for x = d.get(k): a missing key, an empty list or an empty dict
Falsy(opt) == opt = None \/ DOMAIN opt[1] = {}

\* m after a request for url
Requested(m, url, ok) ==
    [m EXCEPT !.requests = Append(@, [url |-> url, ok |-> ok])]

\* lines 154-159: the parser's result, or the exception a handler raised
Parsed(m, kind, hp) ==
    IF hp.exc # "" THEN [m |-> [m EXCEPT !.exc = hp.exc], ret |-> None]
    ELSE [m |-> m, ret |-> ParserResult(kind, hp)]

\* __parse_url: one request; env.failAt is the request of this call that the
\* transport fails, and a URL the site does not serve fails too
ParseUrl(m, kind, url, env) ==
    IF Len(m.requests) + 1 = env.failAt
       \/ url \notin DOMAIN Site(urls.root, env.version)
    THEN [m |-> [Requested(m, url, FALSE) EXCEPT !.exc = "URLError"], ret |-> None]
    ELSE Parsed(Requested(m, url, TRUE), kind,
                Feed(kind, ParserInit(kind), Site(urls.root, env.version)[url]))

\* line 163: self.subject_list = r, once __parse_url has returned r
StoreSubjectList(r) ==
    IF Raised(r) THEN r
    ELSE [m |-> [r.m EXCEPT !.subject_list = Some(r.ret)], ret |-> r.ret]

FetchSubjectList(m, env) ==
    IF m.subject_list = None
    THEN StoreSubjectList(ParseUrl(m, "subject", urls.portal, env))
    ELSE [m |-> m, ret |-> m.subject_list[1]]

\* line 170: self.course_list[subject] = r
StoreCourseList(r, subject) ==
    IF Raised(r) THEN r
    ELSE [m |-> [r.m EXCEPT !.course_list = DictSet(@, subject, r.ret)],
          ret |-> r.ret]

\* fetch_course_list without the test of line 168: every call requests
FetchCourseListAlways(m, subject, env) ==
    StoreCourseList(ParseUrl(m, "course", SubjectUrl(urls.root, subject), env),
                    subject)

FetchCourseList(m, subject, env) ==
    IF Falsy(DictGet(m.course_list, subject))
    THEN StoreCourseList(ParseUrl(m, "course", SubjectUrl(urls.root, subject), env),
                         subject)
    ELSE [m |-> m, ret |-> m.course_list[subject]]

\* lines 175-176
EnsureSubject(m, subject) ==
    IF Falsy(DictGet(m.section_list, subject))
    THEN [m EXCEPT !.section_list = DictSet(@, subject, EmptyDict)]
    ELSE m

\* line 179: self.section_list[subject][course_no] = r
StoreSectionList(r, subject, course_no) ==
    IF Raised(r) THEN r
    ELSE [m |-> [r.m EXCEPT !.section_list =
                    DictSet(@, subject, DictSet(@[subject], course_no, r.ret))],
          ret |-> r.ret]

\* lines 177-180
LookupSectionList(m, subject, course_no, env) ==
    IF Falsy(DictGet(m.section_list[subject], course_no))
    THEN StoreSectionList(
             ParseUrl(m, "section", CourseUrl(urls.root, subject, course_no), env),
             subject, course_no)
    ELSE [m |-> m, ret |-> m.section_list[subject][course_no]]

FetchSectionList(m, subject, course_no, env) ==
    LookupSectionList(EnsureSubject(m, subject), subject, course_no, env)

RECURSIVE FetchCourses(_, _, _, _, _)

\* line 217 taking a failed section list for an empty one
AddCourseSwallowingFailure(r, subject, courses, acc, env) ==
    FetchCourses([r.m EXCEPT !.exc = ""], subject, Tail(courses),
                 DictSet(acc, StrNo(Head(courses)),
                         IF Raised(r) THEN EmptyDict ELSE r.ret),
                 env)

\* line 217: section_list[subject][course] = r; course numbers read from a
\* course-list page are strings
AddCourse(r, subject, courses, acc, env) ==
    IF Raised(r) THEN r
    ELSE FetchCourses(r.m, subject, Tail(courses),
                      DictSet(acc, StrNo(Head(courses)), r.ret), env)

\* lines 216-217: the inner loop of fetch
FetchCourses(m, subject, courses, acc, env) ==
    IF courses = << >> THEN [m |-> m, ret |-> acc]
    ELSE AddCourse(FetchSectionList(m, subject, StrNo(Head(courses)), env),
                   subject, courses, acc, env)

RECURSIVE FetchSubjects(_, _, _, _)

\* the inner loop done for one subject: on to the next subject
AddSubject(rs, subjects, acc, env) ==
    IF Raised(rs) THEN rs
    ELSE FetchSubjects(rs.m, Tail(subjects), DictSet(acc, Head(subjects), rs.ret),
                       env)

\* lines 213-217 leaving out a subject that lists no course
AddCoursesOfSkippingEmpty(rc, subjects, acc, env) ==
    IF Raised(rc) THEN rc
    ELSE IF rc.ret = << >> THEN FetchSubjects(rc.m, Tail(subjects), acc, env)
    ELSE AddSubject(FetchCourses(rc.m, Head(subjects), rc.ret, EmptyDict, env),
                    subjects, acc, env)

\* lines 213-217: the subject's course list is rc.ret; section_list[subject]
\* starts empty and gets one entry per course
AddCoursesOf(rc, subjects, acc, env) ==
    IF Raised(rc) THEN rc
    ELSE AddSubject(FetchCourses(rc.m, Head(subjects), rc.ret, EmptyDict, env),
                    subjects, acc, env)

\* lines 209-219: the outer loop of fetch
FetchSubjects(m, subjects, acc, env) ==
    IF subjects = << >> THEN [m |-> m, ret |-> acc]
    ELSE AddCoursesOf(FetchCourseList(m, Head(subjects), env), subjects, acc, env)

NoArg == <<"none">>
StrArg(s) == <<"str", s>>
ListArg(l) == <<"list", l>>
TupleArg(l) == <<"tuple", l>>

\* lines 195-207: the subjects fetch loops over; type(subject) is tested
\* against str, then list
SubjectsToFetch(m, subject, env) ==
    IF subject[1] = "str" THEN [m |-> m, ret |-> <<subject[2]>>]
    ELSE IF subject[1] = "list" THEN [m |-> m, ret |-> subject[2]]
    ELSE FetchSubjectList(m, env)

FetchLoop(r, env) ==
    IF Raised(r) THEN r ELSE FetchSubjects(r.m, r.ret, EmptyDict, env)

\* lines 199-203
OneCourse(r, subject, course_no) ==
    IF Raised(r) THEN r
    ELSE [m |-> r.m,
          ret |-> DictSet(EmptyDict, subject, DictSet(EmptyDict, course_no, r.ret))]

\* fetch that enumerates the subject's courses even when course_no is given
FetchIgnoringCourseNo(m, subject, course_no, env) ==
    FetchLoop(SubjectsToFetch(m, subject, env), env)

\* fetch(subject, course_no)
Fetch(m, subject, course_no, env) ==
    IF subject[1] = "str" /\ course_no # NoArg
    THEN OneCourse(FetchSectionList(m, subject[2], course_no, env),
                   subject[2], course_no)
    ELSE FetchLoop(SubjectsToFetch(m, subject, env), env)

-----------------------------------------------------------------------------
(* Calls on a fetcher *)

Subjects == {CS, <<"c", "s">>, MA}
CourseNos == {IntNo(1), StrNo(<<"1">>), IntNo(2)}

\* fetch(subject, course_no): the subject absent, a string, a list or a tuple,
\* with and without a course number
FetchArgs ==
    { <<NoArg, NoArg>>,
      <<NoArg, IntNo(1)>>,
      <<StrArg(CS), NoArg>>,
      <<StrArg(MA), NoArg>>,
      <<StrArg(<<"c", "s">>), IntNo(1)>>,
      <<StrArg(CS), StrNo(<<"1">>)>>,
      <<StrArg(CS), IntNo(2)>>,
      <<StrArg(MA), IntNo(1)>>,
      <<ListArg(<<CS, MA>>), NoArg>>,
      <<ListArg(<<MA>>), IntNo(1)>>,
      <<ListArg(<< >>), NoArg>>,
      <<TupleArg(<<MA>>), NoArg>> }

\* the state of the site during a call, and the request of the call that the
\* transport fails (0: none); fetch() issues requests at three levels
Envs == [version : SiteVersions, failAt : 0..3]

\* fetcher = UIUCCourseFetcher(2011, 'Spring'), in any month
TermArgs == {Some(<<"S", "p", "r", "i", "n", "g">>)}
Months == {3}

\* the fetcher = UIUCCourseFetcher(year, term) leaves, constructed on today
Constructed(year, term, today) ==
    /\ ctor = [year |-> year, term |-> term, today |-> today]
    /\ urls = Construct(year, term, today)
    /\ subject_list = None
    /\ course_list = EmptyDict
    /\ section_list = EmptyDict
    /\ call = [op |-> "none", subject |-> NoArg, course_no |-> NoArg,
               raised |-> FALSE, result |-> None, requests |-> << >>]
    /\ nCalls = 0
    /\ served = EmptyDict

FetcherInit ==
    \E term \in TermArgs, month \in Months :
        Constructed(Some(2011), term, [year |-> 2011, month |-> month])

\* how often each URL has been requested with success, after requests
RECURSIVE ServedAfter(_, _)
ServedAfter(count, requests) ==
    IF requests = << >> THEN count
    ELSE LET url == Head(requests).url
             n == IF DictGet(count, url) = None THEN 0 ELSE count[url]
         IN  ServedAfter(IF Head(requests).ok THEN DictSet(count, url, n + 1)
                         ELSE count,
                         Tail(requests))

\* the caches after a call, and the record of the call
Called(op, subject, course_no, r) ==
    /\ nCalls < MaxCalls
    /\ subject_list' = r.m.subject_list
    /\ course_list' = r.m.course_list
    /\ section_list' = r.m.section_list
    /\ call' = [op |-> op, subject |-> subject, course_no |-> course_no,
                raised |-> Raised(r), result |-> r.ret,
                requests |-> r.m.requests]
    /\ nCalls' = nCalls + 1
    /\ served' = ServedAfter(served, r.m.requests)
    /\ UNCHANGED <<ctor, urls, scanVars>>

CallFetchSubjectList(env) ==
    Called("fetch_subject_list", NoArg, NoArg, FetchSubjectList(Machine, env))

CallFetchCourseList(subject, env) ==
    Called("fetch_course_list", StrArg(subject), NoArg,
           FetchCourseList(Machine, subject, env))

CallFetchSectionList(subject, course_no, env) ==
    Called("fetch_section_list", StrArg(subject), course_no,
           FetchSectionList(Machine, subject, course_no, env))

CallFetch(subject, course_no, env) ==
    Called("fetch", subject, course_no, Fetch(Machine, subject, course_no, env))

\* fetch_all() is fetch()
CallFetchAll(env) ==
    Called("fetch_all", NoArg, NoArg, Fetch(Machine, NoArg, NoArg, env))

Flush ==
    /\ nCalls < MaxCalls
    /\ subject_list' = None
    /\ course_list' = EmptyDict
    /\ section_list' = EmptyDict
    /\ call' = [op |-> "flush", subject |-> NoArg, course_no |-> NoArg,
                raised |-> FALSE, result |-> None, requests |-> << >>]
    /\ nCalls' = nCalls + 1
    /\ served' = EmptyDict
    /\ UNCHANGED <<ctor, urls, scanVars>>

Next ==
    \/ \E env \in Envs : CallFetchSubjectList(env)
    \/ \E subject \in Subjects, env \in Envs : CallFetchCourseList(subject, env)
    \/ \E subject \in Subjects, course_no \in CourseNos, env \in Envs :
           CallFetchSectionList(subject, course_no, env)
    \/ \E args \in FetchArgs, env \in Envs : CallFetch(args[1], args[2], env)
    \/ \E env \in Envs : CallFetchAll(env)
    \/ Flush

-----------------------------------------------------------------------------
(* UIUCSectionListParser driven by a stream of events *)

ScanInit ==
    /\ parser = SectionParserInit
    /\ last = NoEvent
    /\ nEvents = 0
    /\ runFrags = << >>
    /\ runBase = None
    /\ brAt = None
    /\ replaced = None

\* text is written to a field: a CRN is current and the active field is not crn
Writes(p) ==
    /\ p.current_crn # None
    /\ p.property_to_write # None
    /\ p.property_to_write # Some(WS_CRN)

\* the value of the active field in the current CRN's record, as an option
ActiveValue(p) ==
    DictGet(p.sections[p.current_crn[1]], SliceFrom(p.property_to_write[1], 3))

HandleStartTag(tag, attrs) ==
    /\ nEvents < MaxEvents
    /\ parser.exc = ""
    /\ parser' = SectionStartTag(parser, tag, attrs)
    /\ last' = StartTag(tag, attrs)
    /\ nEvents' = nEvents + 1
    /\ replaced' = None
    /\ UNCHANGED fetchVars
    /\ IF parser'.property_to_write = parser.property_to_write
       THEN /\ runFrags' = runFrags
            /\ runBase' = runBase
            /\ brAt' = IF Lower(tag) = BR THEN Some(Len(runFrags)) ELSE brAt
       ELSE /\ runFrags' = << >>
            /\ runBase' = None
            /\ brAt' = None

HandleData(data) ==
    /\ nEvents < MaxEvents
    /\ parser.exc = ""
    /\ parser' = SectionData(parser, data)
    /\ last' = Data(data)
    /\ nEvents' = nEvents + 1
    /\ replaced' = IF parser.property_to_write = Some(WS_CRN) /\ IntParses(data)
                   THEN DictGet(parser.sections, IntOf(data))
                   ELSE None
    /\ UNCHANGED fetchVars
    /\ IF Writes(parser)
       THEN /\ runFrags' = Append(runFrags, data)
            /\ runBase' = IF runFrags = << >> THEN ActiveValue(parser) ELSE runBase
            /\ brAt' = brAt
       ELSE /\ runFrags' = << >>
            /\ runBase' = None
            /\ brAt' = None

\* HTMLParser.handle_endtag: nothing changes in the scanner
HandleEndTag(tag) ==
    /\ nEvents < MaxEvents
    /\ parser.exc = ""
    /\ parser' = SectionEvent(parser, EndTag(tag))
    /\ last' = EndTag(tag)
    /\ nEvents' = nEvents + 1
    /\ replaced' = None
    /\ UNCHANGED <<runFrags, runBase, brAt>>
    /\ UNCHANGED fetchVars

ScanNext ==
    \/ \E e \in StartTags : HandleStartTag(e.tag, e.attrs)
    \/ \E tag \in EndTags : HandleEndTag(tag)
    \/ \E data \in Texts : HandleData(data)

Init == FetcherInit /\ ScanInit

\* the fetcher under any sequence of calls
Spec == Init /\ [][Next]_vars

\* the section scanner under any stream of events
SpecScan == Init /\ [][ScanNext]_vars

-----------------------------------------------------------------------------
(* Section scanner: properties of SpecScan *)

IsStart(e) == e.kind = "start"
IsData(e) == e.kind = "data"

Field(p) == SliceFrom(p.property_to_write[1], 3)

\* a text fragment as the scanner stores it
Cleaned(text) == ReCleanerSub(Strip(text))

RECURSIVE JoinCleaned(_)
JoinCleaned(frags) ==
    IF Len(frags) = 1 THEN Cleaned(frags[1])
    ELSE JoinCleaned(SubSeq(frags, 1, Len(frags) - 1))
             \o Separator \o Cleaned(frags[Len(frags)])

JoinOnto(base, frags) ==
    IF base = None THEN JoinCleaned(frags)
    ELSE base[1] \o Separator \o JoinCleaned(frags)

\* every record but that of crn is the same in p and q
OtherRecordsSame(p, q, crn) ==
    /\ DOMAIN q.sections = DOMAIN p.sections \cup {crn}
    /\ \A k \in DOMAIN p.sections \ {crn} : q.sections[k] = p.sections[k]

\* in crn's record every field but f is the same in p and q
OtherFieldsSame(p, q, crn, f) ==
    /\ DOMAIN q.sections[crn] = DOMAIN p.sections[crn] \cup {f}
    /\ \A g \in DOMAIN p.sections[crn] \ {f} :
           q.sections[crn][g] = p.sections[crn][g]

\* C6: a td start tag that lacks the class or the headers attribute is no
\* match and does not raise: the scanner moves to NoActiveField and leaves the
\* result mapping and the current CRN unchanged.
C6_MissingAttributeIsNoMatch ==
    [][ ( /\ IsStart(last')
          /\ Lower(last'.tag) = TD
          /\ DOMAIN last'.attrs # {"headers", "class"} )
        => ( /\ parser'.exc = ""
             /\ parser'.property_to_write = None
             /\ parser'.sections = parser.sections
             /\ parser'.current_crn = parser.current_crn ) ]_vars

\* C7: integer text in the crn state makes that integer the current CRN and
\* creates an empty record for it; text in another field state is written to
\* the current CRN's record only; text in the crn state that is not an integer
\* creates no record and clears the current CRN; while there is no current CRN
\* text in any other state leaves the result mapping unchanged, and no start
\* tag changes the current CRN or the mapping.
C7_CrnAttribution ==
    [][ /\ ( IsData(last') /\ parser.property_to_write = Some(WS_CRN)
                            /\ IntParses(last'.data) )
           => ( /\ parser'.current_crn = Some(IntOf(last'.data))
                /\ OtherRecordsSame(parser, parser', IntOf(last'.data))
                /\ parser'.sections[IntOf(last'.data)] = EmptyDict )
        /\ ( IsData(last') /\ parser.property_to_write = Some(WS_CRN)
                            /\ ~IntParses(last'.data) )
           => ( /\ parser'.current_crn = None
                /\ parser'.sections = parser.sections )
        /\ ( IsData(last') /\ Writes(parser) )
           => ( /\ parser'.current_crn = parser.current_crn
                /\ DOMAIN parser'.sections = DOMAIN parser.sections
                /\ OtherRecordsSame(parser, parser', parser.current_crn[1])
                /\ OtherFieldsSame(parser, parser', parser.current_crn[1],
                                   Field(parser))
                /\ parser'.sections # parser.sections )
        /\ ( IsData(last') /\ parser.property_to_write # Some(WS_CRN)
                            /\ parser.current_crn = None )
           => ( /\ parser'.current_crn = None
                /\ parser'.sections = parser.sections )
        /\ IsStart(last')
           => ( /\ parser'.current_crn = parser.current_crn
                /\ parser'.sections = parser.sections ) ]_vars

\* a record exists, the CRN text read after it was not an integer, and text
\* for the location field has just been dropped
C7_Witness ==
    /\ IsData(last)
    /\ last.data = <<"a">>
    /\ parser.current_crn = None
    /\ parser.property_to_write = Some(WS_LOCATION)
    /\ 7 \in DOMAIN parser.sections
    /\ parser.sections[7] = EmptyDict

IsClean(v) ==
    /\ \A i \in 1..Len(v) : v[i] \notin (Whitespace \ {" "})
    /\ \A i \in 1..(Len(v) - 1) : ~(v[i] \in Whitespace /\ v[i + 1] \in Whitespace)
    /\ v # << >> => (v[1] \notin Whitespace /\ v[Len(v)] \notin Whitespace)

\* C8: every stored field value has no tab or newline, no run of two or more
\* whitespace characters and no leading or trailing whitespace.
C8_StoredValuesClean ==
    \A crn \in DOMAIN parser.sections :
        \A f \in DOMAIN parser.sections[crn] : IsClean(parser.sections[crn][f])

\* C9 as stated: after k >= 1 fragments written to one field with no change
\* of the active field between them, the field's value is those k cleaned
\* fragments joined by ', '.
C9_ValueIsJoinOfRun ==
    [][ (Writes(parser') /\ runFrags' # << >>)
        => ActiveValue(parser') = Some(JoinCleaned(runFrags')) ]_vars

\* C9 amended: the field's value is the value it held before the first of the
\* k fragments (if it had one) followed by the k cleaned fragments, all joined
\* by ', ' in delivery order; a fragment changes no other field and no other
\* CRN's record.
C9_ValueIsBaseAndRunJoined ==
    [][ /\ (Writes(parser') /\ runFrags' # << >>)
           => ActiveValue(parser') = Some(JoinOnto(runBase', runFrags'))
        /\ (IsData(last') /\ Writes(parser))
           => ( /\ OtherRecordsSame(parser, parser', parser.current_crn[1])
                /\ OtherFieldsSame(parser, parser', parser.current_crn[1],
                                   Field(parser)) ) ]_vars

\* a fragment was appended to a field that had a value from an earlier run
C9_Witness ==
    /\ Writes(parser)
    /\ runBase # None
    /\ runBase # Some(<< >>)
    /\ Len(runFrags) = 1
    /\ Cleaned(runFrags[1]) # << >>

\* C10: a br start tag in the location state changes nothing (active field,
\* current CRN, result mapping), and location text before and after it is
\* joined by ', ' into one location value.
C10_BrKeepsLocation ==
    [][ /\ ( IsStart(last') /\ Lower(last'.tag) = BR
                             /\ parser.property_to_write = Some(WS_LOCATION) )
           => parser' = parser
        /\ ( /\ parser'.property_to_write = Some(WS_LOCATION)
             /\ parser'.current_crn # None
             /\ brAt' # None
             /\ runFrags' # << >> )
           => ActiveValue(parser') = Some(JoinOnto(runBase', runFrags')) ]_vars

\* location text, a br, and location text again
C10_Witness ==
    /\ parser.property_to_write = Some(WS_LOCATION)
    /\ parser.current_crn # None
    /\ brAt = Some(1)
    /\ Len(runFrags) = 2
    /\ runBase = None
    /\ Cleaned(runFrags[1]) # << >>
    /\ Cleaned(runFrags[2]) # << >>

-----------------------------------------------------------------------------
(* Fetcher: properties of Spec *)

FetchMethods == {"fetch_subject_list", "fetch_course_list", "fetch_section_list"}

RequestedUrls == {call.requests[i].url : i \in 1..Len(call.requests)}

\* the list's items as course-number keys
CourseKeys(courses) == {StrNo(c) : c \in Range(courses)}

\* C1: fetch(s, c) with a string s and a course number c issues at most one
\* request, to the section page of (s, c) and so never to the portal or to a
\* subject's course list, and returns exactly {s: {c: sections}} where
\* sections is what fetch_section_list(s, c) returns.
C1_FetchOneCourse ==
    (call.op = "fetch" /\ call.subject[1] = "str" /\ call.course_no # NoArg)
    => LET s == call.subject[2]
           c == call.course_no
       IN  /\ Len(call.requests) <= 1
           /\ RequestedUrls \subseteq {CourseUrl(urls.root, s, c)}
           /\ urls.portal \notin RequestedUrls
           /\ \A t \in Subjects \cup {s} : SubjectUrl(urls.root, t) \notin RequestedUrls
           /\ ~call.raised
              => ( /\ DOMAIN call.result = {s}
                   /\ DOMAIN call.result[s] = {c}
                   /\ call.result[s][c] = section_list[s][c] )

\* fetch('cs', 1) answered from a warm cache, with a section in the answer
C1_Witness ==
    /\ call.op = "fetch"
    /\ call.subject = StrArg(<<"c", "s">>)
    /\ call.course_no = IntNo(1)
    /\ ~call.raised
    /\ call.requests = << >>
    /\ DOMAIN call.result[<<"c", "s">>][IntNo(1)] # {}

\* C2: of two successful calls of one fetch method with one key and nothing
\* between them, the second issues no request and the two issue one in total
\* at most, whatever the first returned; the first such call after flush()
\* issues a request.
C2_SecondCallServedFromCache ==
    [][ /\ ( /\ call'.op \in FetchMethods
             /\ call.op = call'.op
             /\ call.subject = call'.subject
             /\ call.course_no = call'.course_no
             /\ ~call.raised
             /\ ~call'.raised )
           => ( /\ call'.requests = << >>
                /\ Len(call.requests) + Len(call'.requests) <= 1 )
        /\ (call.op = "flush" /\ call'.op \in FetchMethods)
           => Len(call'.requests) = 1 ]_vars

\* C3: fetch() returns a mapping whose keys are the subjects of
\* fetch_subject_list(), each mapped to the courses of fetch_course_list of
\* that subject, each mapped to the result of fetch_section_list.
C3_FetchAllIsComplete ==
    (call.op \in {"fetch", "fetch_all"} /\ call.subject = NoArg /\ ~call.raised)
    => /\ subject_list # None
       /\ DOMAIN call.result = Range(subject_list[1])
       /\ \A s \in DOMAIN call.result :
             /\ s \in DOMAIN course_list
             /\ DOMAIN call.result[s] = CourseKeys(course_list[s])
             /\ \A c \in DOMAIN call.result[s] :
                    call.result[s][c] = section_list[s][c]

\* fetch() on a cache that an earlier call warmed in part: some of its
\* lists are requested and some are not
C3_Witness ==
    /\ call.op = "fetch"
    /\ call.subject = NoArg
    /\ ~call.raised
    /\ nCalls = 2
    /\ Len(call.requests) \in 1..3
    /\ CS \in DOMAIN call.result
    /\ MA \in DOMAIN call.result
    /\ DOMAIN call.result[CS] # {}

\* C4: fetch with a list or a tuple of subjects requests no subject list and
\* returns a mapping whose keys are exactly the given subjects.
C4_CollectionOfSubjects ==
    (call.op = "fetch" /\ call.subject[1] \in {"list", "tuple"})
    => /\ urls.portal \notin RequestedUrls
       /\ ~call.raised => DOMAIN call.result = Range(call.subject[2])

\* C5: when a request of a fetch call fails, the call raises, returns no
\* mapping, and the failed request is the last one it issues.
C5_FailureAbortsFetch ==
    (call.op \in {"fetch", "fetch_all"})
    => \A i \in 1..Len(call.requests) :
          ~call.requests[i].ok
          => ( /\ call.raised
               /\ call.result = None
               /\ i = Len(call.requests) )

\* fetch() whose third request, for a section list, fails
C5_Witness ==
    /\ call.op = "fetch"
    /\ call.subject = NoArg
    /\ Len(call.requests) = 3
    /\ call.requests[1].ok
    /\ call.requests[2].ok
    /\ ~call.requests[3].ok
    /\ call.raised

-----------------------------------------------------------------------------
(* UIUCCourseListParser driven by a stream of events *)

\* the labels of a course page: subject and number, the subject alone, an
\* empty label, two spaces or a tab between subject and number, a leading
\* space, and a third word
CourseTexts ==
    { <<"C", "S", " ", "1">>,
      <<"C", "S">>,
      << >>,
      <<"C", "S", " ", " ", "1">>,
      <<"C", "S", "\t", "1">>,
      <<" ", "C", "S", " ", "1">>,
      <<"C", "S", " ", "2", " ", "a">> }

CourseStartTags ==
    { StartTag(DIV, OnlyClass(WS_COURSE_NUMBER)),
      StartTag(<<"D", "I", "V">>, Attrs(WS_CRN, WS_COURSE_NUMBER)),
      StartTag(DIV, OnlyClass(WS_ROW)),
      StartTag(DIV, EmptyDict),
      StartTag(BR, OnlyClass(WS_COURSE_NUMBER)) }

CourseEndTags == {DIV}

CourseScanInit ==
    /\ parser = CourseParserInit
    /\ last = NoEvent
    /\ nEvents = 0
    /\ runFrags = << >>
    /\ runBase = None
    /\ brAt = None
    /\ replaced = None

CourseHandleStartTag(tag, attrs) ==
    /\ nEvents < MaxEvents
    /\ parser.exc = ""
    /\ parser' = CourseStartTag(parser, tag, attrs)
    /\ last' = StartTag(tag, attrs)
    /\ nEvents' = nEvents + 1
    /\ UNCHANGED <<runFrags, runBase, brAt, replaced>>
    /\ UNCHANGED fetchVars

\* HTMLParser.handle_endtag: nothing changes in the scanner
CourseHandleEndTag(tag) ==
    /\ nEvents < MaxEvents
    /\ parser.exc = ""
    /\ parser' = CourseEvent(parser, EndTag(tag))
    /\ last' = EndTag(tag)
    /\ nEvents' = nEvents + 1
    /\ UNCHANGED <<runFrags, runBase, brAt, replaced>>
    /\ UNCHANGED fetchVars

CourseHandleData(data) ==
    /\ nEvents < MaxEvents
    /\ parser.exc = ""
    /\ parser' = CourseData(parser, data)
    /\ last' = Data(data)
    /\ nEvents' = nEvents + 1
    /\ UNCHANGED <<runFrags, runBase, brAt, replaced>>
    /\ UNCHANGED fetchVars

CourseScanNext ==
    \/ \E e \in CourseStartTags : CourseHandleStartTag(e.tag, e.attrs)
    \/ \E tag \in CourseEndTags : CourseHandleEndTag(tag)
    \/ \E data \in CourseTexts : CourseHandleData(data)

\* the course scanner under any stream of events
CourseInit == FetcherInit /\ CourseScanInit

SpecCourse == CourseInit /\ [][CourseScanNext]_vars

-----------------------------------------------------------------------------
(* Course scanner: properties of SpecCourse *)

\* the whitespace-separated tokens of a text
RECURSIVE Tokens(_)
Tokens(text) ==
    LET t == LStrip(text)
    IN  IF t = << >> THEN << >>
        ELSE IF \A i \in 1..Len(t) : t[i] \notin Whitespace THEN <<t>>
        ELSE LET i == CHOOSE j \in 1..Len(t) :
                          t[j] \in Whitespace
                          /\ \A k \in 1..(j - 1) : t[k] \notin Whitespace
             IN  <<SubSeq(t, 1, i - 1)>> \o Tokens(SubSeq(t, i + 1, Len(t)))

\* C11: a text event received while the label marker is active appends
\* exactly the second whitespace-separated token of the text when it has at
\* least two tokens; with fewer than two tokens nothing is raised and the
\* scanner is left as it was.
C11_ShortLabelSkipped ==
    [][(parser.ready /\ IsData(last') /\ nEvents' = nEvents + 1) =>
          IF Len(Tokens(last'.data)) >= 2
          THEN /\ parser'.exc = ""
               /\ parser'.course_no =
                      Append(parser.course_no, Tokens(last'.data)[2])
          ELSE parser' = parser]_vars

-----------------------------------------------------------------------------
(* UIUCCourseFetcher constructed with any term, in any month *)

\* term arguments: none, the three terms in several letter cases, another word
AllTermArgs ==
    { None,
      Some(SPRING),
      Some(<<"S", "u", "m", "m", "e", "r">>),
      Some(<<"F", "A", "L", "L">>),
      Some(<<"w", "i", "n", "t", "e", "r">>) }

AllMonths == 1..12

\* year arguments: none (the current year is taken) or a year
YearArgs == {None, Some(2011)}

ThisYear == 2012

TermInit ==
    /\ \E year \in YearArgs, term \in AllTermArgs, month \in AllMonths :
           Constructed(year, term, [year |-> ThisYear, month |-> month])
    /\ ScanInit

\* the calls that request the portal URL and a URL under the root
TermNext ==
    \/ \E env \in Envs : CallFetchSubjectList(env)
    \/ \E subject \in Subjects, env \in Envs : CallFetchCourseList(subject, env)

\* fetchers constructed with any arguments in any month, under these calls
SpecTerm == TermInit /\ [][TermNext]_vars

-----------------------------------------------------------------------------
(* Constructor: properties of SpecTerm *)

\* the term of a month
MonthTerm(month) ==
    IF month \in 1..4 THEN SPRING
    ELSE IF month \in 5..7 THEN SUMMER
    ELSE FALL

\* the root URL of a year and a month
MonthRoot(year, month) ==
    SiteRoot \o StrInt(year) \o Slash \o MonthTerm(month) \o ScheduleDir

StartsWith(s, prefix) ==
    Len(s) >= Len(prefix) /\ SubSeq(s, 1, Len(prefix)) = prefix

-----------------------------------------------------------------------------
(* Fetcher cache: properties of Spec *)

NonEmpty(x) == DOMAIN x # {}

\* every key of dictionary d is a key of e, with the same value where the
\* value in d is not empty
KeptIn(d, e) ==
    \A k \in DOMAIN d :
        /\ k \in DOMAIN e
        /\ NonEmpty(d[k]) => e[k] = d[k]

\* C13: a call other than flush(), successful or failing, removes no cache
\* entry and leaves every entry that holds a non-empty result as it is, at
\* the subject, course-list and section-list levels; flush() empties all
\* three levels.
C13_CacheOnlyGrows ==
    [][nCalls' = nCalls + 1 =>
          IF call'.op = "flush"
          THEN /\ subject_list' = None
               /\ course_list' = EmptyDict
               /\ section_list' = EmptyDict
          ELSE /\ subject_list # None => subject_list' = subject_list
               /\ KeptIn(course_list, course_list')
               /\ \A s \in DOMAIN section_list :
                      /\ s \in DOMAIN section_list'
                      /\ KeptIn(section_list[s], section_list'[s])]_vars

\* a second call has added a section list to a cache that held a course list
C13_Witness ==
    /\ nCalls = 2
    /\ call.op = "fetch_section_list"
    /\ ~call.raised
    /\ Len(call.requests) = 1
    /\ CS \in DOMAIN course_list
    /\ NonEmpty(course_list[CS])
    /\ CS \in DOMAIN section_list
    /\ IntNo(1) \in DOMAIN section_list[CS]
    /\ NonEmpty(section_list[CS][IntNo(1)])

-----------------------------------------------------------------------------
(* Section scanner, end tags: properties of SpecScan *)

IsEnd(e) == e.kind = "end"

\* C14: an end tag clears the active-field marker, and text that arrives
\* after an end tag and before the next start tag is dropped: it changes
\* neither a record of the result nor the current CRN.
C14_EndTagClearsMarker ==
    [][nEvents' = nEvents + 1 =>
          /\ IsEnd(last') => parser'.property_to_write = None
          /\ (IsEnd(last) /\ IsData(last')) =>
                 /\ parser'.sections = parser.sections
                 /\ parser'.current_crn = parser.current_crn]_vars

-----------------------------------------------------------------------------
(* Section scanner, start tags: properties of SpecScan *)

\* a td whose headers is one of the 7 tokens and whose class, trimmed, is the
\* data-row marker
IsDataCell(e) ==
    /\ Lower(e.tag) = TD
    /\ DictGet(e.attrs, "headers") # None
    /\ e.attrs["headers"] \in Range(SectionHeaders)
    /\ DictGet(e.attrs, "class") # None
    /\ Strip(e.attrs["class"]) = WS_ROW

\* C15: but for a br in the location state, the active field after a start
\* tag depends on the tag alone: the header's field after a data cell of a
\* recognized header, from any state, and no active field after every
\* other start tag.
C15_StartTagDecidesField ==
    [][(nEvents' = nEvents + 1 /\ IsStart(last')
        /\ ~(Lower(last'.tag) = BR
             /\ parser.property_to_write = Some(WS_LOCATION))) =>
          IF IsDataCell(last')
          THEN parser'.property_to_write = Some(last'.attrs["headers"])
          ELSE parser'.property_to_write = None]_vars

-----------------------------------------------------------------------------
(* Section scanner, records: properties of SpecScan *)

\* C16: integer CRN text n received in the crn state, when the result holds
\* a record for n with fields set, replaces that record by an empty one,
\* makes n the current CRN and leaves the record of every other CRN as it
\* was.
C16_SeenCrnStartsEmpty ==
    [][(/\ nEvents' = nEvents + 1
        /\ IsData(last')
        /\ parser.property_to_write = Some(WS_CRN)
        /\ IntParses(last'.data)
        /\ IntOf(last'.data) \in DOMAIN parser.sections
        /\ NonEmpty(parser.sections[IntOf(last'.data)])) =>
          /\ parser'.sections[IntOf(last'.data)] = EmptyDict
          /\ parser'.current_crn = Some(IntOf(last'.data))
          /\ OtherRecordsSame(parser, parser', IntOf(last'.data))
          /\ DOMAIN parser'.sections = DOMAIN parser.sections]_vars

\* the last text replaced a record that had fields by an empty one, while
\* the result holds the record of another CRN
C16_Witness ==
    /\ IsData(last)
    /\ replaced # None
    /\ NonEmpty(replaced[1])
    /\ parser.current_crn # None
    /\ parser.sections[parser.current_crn[1]] = EmptyDict
    /\ Cardinality(DOMAIN parser.sections) = 2

\* the field names of a record
FieldNames ==
    { <<"t", "y", "p", "e">>,
      <<"s", "e", "c", "t", "i", "o", "n">>,
      <<"t", "i", "m", "e">>,
      <<"d", "a", "y", "s">>,
      <<"l", "o", "c", "a", "t", "i", "o", "n">>,
      <<"i", "n", "s", "t", "r", "u", "c", "t", "o", "r">> }

\* C17: after every event the current CRN is none or a key of the result,
\* every field name of every record is one of type, section, time, days,
\* location and instructor, and no event removes a key of the result.
C17_ResultWellFormed ==
    [][/\ parser'.current_crn # None =>
              parser'.current_crn[1] \in DOMAIN parser'.sections
       /\ \A crn \in DOMAIN parser'.sections :
              DOMAIN parser'.sections[crn] \subseteq FieldNames
       /\ DOMAIN parser.sections \subseteq DOMAIN parser'.sections]_vars

\* after six events the current CRN's record has a location and a time
C17_Witness ==
    /\ parser.current_crn # None
    /\ DOMAIN parser.sections[parser.current_crn[1]] =
           {<<"l", "o", "c", "a", "t", "i", "o", "n">>, <<"t", "i", "m", "e">>}
    /\ nEvents = 6

-----------------------------------------------------------------------------
(* Fetcher, failed requests: properties of Spec *)

\* the cache holds an entry for the key of call c
Cached(c) ==
    CASE c.op = "fetch_subject_list" -> subject_list # None
      [] c.op = "fetch_course_list" -> c.subject[2] \in DOMAIN course_list
      [] c.op = "fetch_section_list" ->
             /\ c.subject[2] \in DOMAIN section_list
             /\ c.course_no \in DOMAIN section_list[c.subject[2]]

\* C18: a call of fetch_subject_list, fetch_course_list or fetch_section_list
\* that fails adds no result to the cache and changes none; the same call
\* made again right after it issues a new request; and a call whose key has
\* an entry in the cache, stored by an earlier successful request, issues no
\* request and does not fail.
C18_FailureStoresNothing ==
    [][(nCalls' = nCalls + 1 /\ call'.op \in FetchMethods) =>
          /\ call'.raised =>
                 /\ subject_list' = subject_list
                 /\ course_list' = course_list
                 /\ \A s \in DOMAIN section_list' :
                        \A c \in DOMAIN section_list'[s] :
                            /\ s \in DOMAIN section_list
                            /\ c \in DOMAIN section_list[s]
                            /\ section_list'[s][c] = section_list[s][c]
          /\ ( /\ call.raised
               /\ call.op = call'.op
               /\ call.subject = call'.subject
               /\ call.course_no = call'.course_no )
                 => Len(call'.requests) = 1
          /\ Cached(call') =>
                 /\ call'.requests = << >>
                 /\ ~call'.raised]_vars

-----------------------------------------------------------------------------
(* Fetcher, cache keys and URLs: properties of Spec *)

\* C19: since construction or the last flush() no URL has been requested
\* with success more than once, and two keys of the course-list cache, or
\* of the section-list cache, never stand for the same URL.
C19_OneRequestPerUrl ==
    /\ \A url \in DOMAIN served : served[url] <= 1
    /\ \A s, t \in DOMAIN course_list :
           SubjectUrl(urls.root, s) = SubjectUrl(urls.root, t) => s = t
    /\ \A s, t \in DOMAIN section_list :
           \A c \in DOMAIN section_list[s], d \in DOMAIN section_list[t] :
               CourseUrl(urls.root, s, c) = CourseUrl(urls.root, t, d)
                   => (s = t /\ c = d)

=============================================================================
